---- MODULE Spec2Model ----
(***************************************************************************)
(* TradeWise investment tracker: the price sync pipeline (backend/sync.py), *)
(* the transaction handlers (backend/main.py) and the valuation engine      *)
(* (backend/portfolio.py) over the three tables of backend/models.py.       *)
(*                                                                          *)
(* Requests are handled one at a time.  sync_asset_data is modelled step by *)
(* step (one action per store round trip or provider call); the other       *)
(* handlers are one action each.                                            *)
(***************************************************************************)
EXTENDS Integers, Sequences, FiniteSets, TLC

(***************************************************************************)
(* Bounds of the model.                                                     *)
(***************************************************************************)
MaxDate == 2        \* calendar dates are 1..MaxDate
MaxSyncs == 2       \* sync requests per behaviour
MaxTx == 2          \* transactions drawn for the valuation engine
MaxLog == 2         \* rows of the transaction log under SpecLog
MaxFileRows == 2    \* rows of an imported file

Dates == 1..MaxDate

(***************************************************************************)
(* Floating point values.  A pandas / SQLite float is a finite number, NaN  *)
(* (also what an outer join puts in a missing cell) or an infinity.         *)
(***************************************************************************)
Num(n) == [k |-> "num", v |-> n]
NaN == [k |-> "nan", v |-> 0]
PosInf == [k |-> "inf", v |-> 0]
NegInf == [k |-> "ninf", v |-> 0]

IsNum(x) == x.k = "num"
\* x > 0 : false for NaN and -inf, true for +inf
Gt0(x) == x.k = "inf" \/ (x.k = "num" /\ x.v > 0)
\* x >= 0
Ge0(x) == x.k = "inf" \/ (x.k = "num" /\ x.v >= 0)
NotNa(x) == x.k # "nan"
IsInf(x) == x.k \in {"inf", "ninf"}

\* a / b on floats (pandas: division by zero gives an infinity or NaN, never
\* an error).  The finite quotients of the model's values are exact.
FDiv(a, b) ==
    IF a.k = "nan" \/ b.k = "nan" THEN NaN
    ELSE IF IsInf(a) /\ IsInf(b) THEN NaN
    ELSE IF IsInf(b) THEN Num(0)
    ELSE IF IsInf(a) THEN (IF (a.k = "inf") = (b.v >= 0) THEN PosInf ELSE NegInf)
    ELSE IF b.v = 0 THEN (IF a.v = 0 THEN NaN
                          ELSE IF a.v > 0 THEN PosInf ELSE NegInf)
    ELSE Num(a.v \div b.v)

FillNa0(x) == IF x.k = "nan" THEN Num(0) ELSE x

(***************************************************************************)
(* Data frames: a column set and one row per date.                          *)
(***************************************************************************)
RawCols == {"open", "high", "low", "close"}
QfqCols == {"qfq_open", "qfq_high", "qfq_low", "qfq_close"}
AdjCols == {"adj_open", "adj_high", "adj_low", "adj_close"}
price_cols == RawCols \cup QfqCols \cup AdjCols
AllCols == price_cols \cup {"volume"}

Frame(cols, rows) == [cols |-> cols, rows |-> rows]
EmptyFrame == Frame({}, <<>>)
IsEmpty(df) == DOMAIN df.rows = {}

\* df[[...]] followed by df.columns = [...]: m maps each new column name to
\* the provider's column it is taken from
Project(rows, m) ==
    Frame(DOMAIN m, [d \in DOMAIN rows |-> [c \in DOMAIN m |-> rows[d][m[c]]]])

\* pd.merge(f, g, on='date', how='outer')
OuterJoin(f, g) ==
    Frame(f.cols \cup g.cols,
          [d \in DOMAIN f.rows \cup DOMAIN g.rows |->
             [c \in f.cols \cup g.cols |->
                IF c \in f.cols
                THEN (IF d \in DOMAIN f.rows THEN f.rows[d][c] ELSE NaN)
                ELSE (IF d \in DOMAIN g.rows THEN g.rows[d][c] ELSE NaN)]])

\* df[new] = df[old] for each pair of m
CopyCols(df, m) ==
    Frame(df.cols \cup DOMAIN m,
          [d \in DOMAIN df.rows |->
             [c \in df.cols \cup DOMAIN m |->
                IF c \in DOMAIN m THEN df.rows[d][m[c]] ELSE df.rows[d][c]]])

Restrict(df, keep) == Frame(df.cols, [d \in keep |-> df.rows[d]])

(***************************************************************************)
(* validate_price_data                                                      *)
(***************************************************************************)
\* PriceOk as it would be without the np.isinf filter of line 30
PriceOkNoInf(x) == Gt0(x) /\ NotNa(x)

\* df[df[col] > 0]; df[df[col].notna()]; df[~np.isinf(df[col])]
PriceOk(x) == Gt0(x) /\ NotNa(x) /\ ~IsInf(x)

\* df[df['volume'] >= 0]; notna; ~isinf
VolumeOk(x) == Ge0(x) /\ NotNa(x) /\ ~IsInf(x)

RowValid(row, cols) ==
    /\ \A c \in price_cols \cap cols : PriceOk(row[c])
    /\ ("volume" \in cols) => VolumeOk(row["volume"])

validate_price_data(df) ==
    IF IsEmpty(df) THEN df
    ELSE Restrict(df, {d \in DOMAIN df.rows : RowValid(df.rows[d], df.cols)})

(***************************************************************************)
(* Provider responses.  A call to a market-data provider raises, or returns *)
(* a table with one row per date (possibly none).  A provider row has the   *)
(* columns open, high, low, close and vol (volume, or turnover for the      *)
(* provider that reports an amount).                                        *)
(***************************************************************************)
ProvRow(o, h, l, c, v) == [open |-> o, high |-> h, low |-> l, close |-> c, vol |-> v]

\* a well-formed row at the price level p (the quotients of the derived
\* volume, vol / close / 100, are exact)
GoodRow(p) == ProvRow(Num(p), Num(p), Num(p), Num(p), Num(p * 200))

BadKinds == {"zero_close", "inf_high", "neg_low", "neg_vol"}

BadRow(p, kind) ==
    CASE kind = "zero_close" -> ProvRow(Num(p), Num(p), Num(p), Num(0), Num(p * 200))
      [] kind = "inf_high"   -> ProvRow(Num(p), PosInf, Num(p), Num(p), Num(p * 200))
      [] kind = "neg_low"    -> ProvRow(Num(p), Num(p), Num(0 - 5), Num(p), Num(p * 200))
      [] kind = "neg_vol"    -> ProvRow(Num(p), Num(p), Num(p), Num(p), Num(0 - 1))

\* what the provider holds at the time of a request: a price level and the
\* kind of malformed row it may serve
Snapshots ==
    { [level |-> 10, bad |-> "zero_close"], [level |-> 20, bad |-> "inf_high"],
      [level |-> 10, bad |-> "neg_low"],    [level |-> 20, bad |-> "neg_vol"] }

Shapes == {"raise", "empty", "all", "first", "bad"}

\* a call the adapter does not get to, an earlier one having failed
NotCalled == "not_called"

\* the shapes of the n consecutive calls of one adapter: a call is made
\* exactly when every earlier call returned rows
CallShapes(n) ==
    {ss \in [1..n -> Shapes \cup {NotCalled}] :
        /\ ss[1] # NotCalled
        /\ \A i \in 2..n :
              (ss[i] = NotCalled) <=> (ss[i - 1] \in {"raise", "empty", NotCalled})}

\* the response of one provider call
Response(snap, shape) ==
    [raises |-> shape = "raise",
     rows   |-> CASE shape \in {"raise", "empty", NotCalled} -> <<>>
                  [] shape = "all"   -> [d \in Dates |-> GoodRow(snap.level)]
                  [] shape = "first" -> [d \in {1} |-> GoodRow(snap.level)]
                  [] shape = "bad"   ->
                       [d \in Dates |-> IF d = 1 THEN BadRow(snap.level, snap.bad)
                                        ELSE GoodRow(snap.level)]]

\* "df is None or df.empty" after a call that did not raise
Unusable(r) == r.raises \/ DOMAIN r.rows = {}

(***************************************************************************)
(* get_stock_data: the three adapters, and get_fund_data.  Each yields      *)
(* [ok, df]: ok is FALSE when the adapter's code raises.                    *)
(***************************************************************************)
Failed == [ok |-> FALSE, df |-> EmptyFrame]
Validated(df) ==
    LET v == validate_price_data(df)
    IN  IF IsEmpty(v) THEN Failed ELSE [ok |-> TRUE, df |-> v]

RawMap == [open |-> "open", close |-> "close", high |-> "high", low |-> "low"]
RawVolMap == [open |-> "open", close |-> "close", high |-> "high", low |-> "low",
              volume |-> "vol"]
QfqMap == [qfq_open |-> "open", qfq_close |-> "close", qfq_high |-> "high",
           qfq_low |-> "low"]
QfqVolMap == [qfq_open |-> "open", qfq_close |-> "close", qfq_high |-> "high",
              qfq_low |-> "low", volume |-> "vol"]
QfqAmountMap == [qfq_open |-> "open", qfq_close |-> "close", qfq_high |-> "high",
                 qfq_low |-> "low", amount |-> "vol"]
HfqMap == [adj_open |-> "open", adj_close |-> "close", adj_high |-> "high",
           adj_low |-> "low"]

\* East Money: raw, qfq and hfq series, outer-joined on date
EastMoney(rraw, rqfq, rhfq) ==
    IF Unusable(rraw) \/ Unusable(rqfq) \/ Unusable(rhfq) THEN Failed
    ELSE LET df == OuterJoin(OuterJoin(Project(rraw.rows, RawVolMap),
                                       Project(rqfq.rows, QfqMap)),
                             Project(rhfq.rows, HfqMap))
         IN  IF IsEmpty(df) THEN Failed ELSE Validated(df)

\* df['volume'] = (df['amount'] / df['qfq_close'] / 100).fillna(0); drop amount
TencentVolume(df) ==
    Frame((df.cols \ {"amount"}) \cup {"volume"},
          [d \in DOMAIN df.rows |->
             [c \in (df.cols \ {"amount"}) \cup {"volume"} |->
                IF c = "volume"
                THEN FillNa0(FDiv(FDiv(df.rows[d]["amount"], df.rows[d]["qfq_close"]),
                                  Num(100)))
                ELSE df.rows[d][c]]])

\* Tencent: qfq (with turnover) and hfq; the raw columns copy the qfq ones
Tencent(rqfq, rhfq) ==
    IF Unusable(rqfq) \/ Unusable(rhfq) THEN Failed
    ELSE LET df == OuterJoin(Project(rqfq.rows, QfqAmountMap),
                             Project(rhfq.rows, HfqMap))
         IN  IF IsEmpty(df) THEN Failed
             ELSE Validated(TencentVolume(
                      CopyCols(df, [open |-> "qfq_open", close |-> "qfq_close",
                                    high |-> "qfq_high", low |-> "qfq_low"])))

\* Sina: raw data only; both adjusted quadruples copy the raw one
Sina(r) ==
    IF Unusable(r) THEN Failed
    ELSE Validated(CopyCols(Project(r.rows, RawVolMap),
                     [qfq_open |-> "open", qfq_high |-> "high", qfq_low |-> "low",
                      qfq_close |-> "close", adj_open |-> "open", adj_high |-> "high",
                      adj_low |-> "low", adj_close |-> "close"]))

\* get_fund_data: qfq (with volume), hfq and raw, outer-joined on date
get_fund_data(rqfq, rhfq, rraw) ==
    IF Unusable(rqfq) \/ Unusable(rhfq) \/ Unusable(rraw) THEN Failed
    ELSE LET df == OuterJoin(OuterJoin(Project(rraw.rows, RawMap),
                                       Project(rqfq.rows, QfqVolMap)),
                             Project(rhfq.rows, HfqMap))
         IN  IF IsEmpty(df) THEN Failed ELSE Validated(df)

(***************************************************************************)
(* The store (backend/models.py) and the requests in flight.                *)
(***************************************************************************)
VARIABLES
    assets,     \* table assets: sequence of rows, the id of a row is its index
    prices,     \* table price_history: set of rows
    txs,        \* table transactions: sequence of rows, in insertion order
    sync,       \* the locals of the running sync_asset_data call
    resp,       \* what the last finished request returned
    nsync,      \* sync requests started so far
    peer        \* the locals of a second sync_asset_data call, not scheduled now

vars == <<assets, prices, txs, sync, resp, nsync, peer>>

Symbols == {"A", "B"}
AssetTypes == {"stock", "fund", "future"}

\* Python's None for a name, and the names of the model: empty, blank, usable
None == "<None>"
Names == {"", " ", "Acme"}

\* bool(s) of an Optional[str]
Truthy(s) == s # None /\ s # ""
\* s.strip() on the names of the model
Strip(s) == IF s = " " THEN "" ELSE s

Asset(symbol, name, asset_type) ==
    [symbol |-> symbol, name |-> name, asset_type |-> asset_type]

\* db.query(Asset).filter(Asset.symbol == symbol).first(): the id, 0 for None
AssetIdBySymbol(as, symbol) ==
    IF \E i \in 1..Len(as) : as[i].symbol = symbol
    THEN CHOOSE i \in 1..Len(as) :
           /\ as[i].symbol = symbol
           /\ \A j \in 1..Len(as) : as[j].symbol = symbol => i <= j
    ELSE 0

\* symbol = Column(String, unique=True): does adding a row for symbol fail?
SymbolTaken(as, symbol) == \E i \in 1..Len(as) : as[i].symbol = symbol

\* PriceHistory(asset_id=asset.id, date=row['date'], open=row['open'], ...)
PriceHistory(asset_id, d, row) ==
    [c \in AllCols \cup {"asset_id", "date"} |->
        IF c = "asset_id" THEN asset_id ELSE IF c = "date" THEN d ELSE row[c]]

\* the insert loop over df.iterrows(): db.merge() of an object without a
\* primary key adds it to the session as a new row
PendingInserts(asset_id, df) ==
    {PriceHistory(asset_id, d, df.rows[d]) : d \in DOMAIN df.rows}

\* UniqueConstraint('asset_id', 'date'): would the rows of new break it?
BreaksAssetDateUc(stored, new) ==
    \E r \in new : \E q \in stored : q.asset_id = r.asset_id /\ q.date = r.date

\* db.commit() of the pending price rows: all of them, or an error and none
CommitPrices(stored, new, fault) ==
    IF fault \/ BreaksAssetDateUc(stored, new)
    THEN [ok |-> FALSE, prices |-> stored]
    ELSE [ok |-> TRUE, prices |-> stored \cup new]

(***************************************************************************)
(* sync_asset_data, step by step.                                           *)
(***************************************************************************)
\* the result of ak.stock_individual_info_em narrowed to the name row
Lookups ==
    {[st |-> "raise", value |-> None], [st |-> "no_row", value |-> None]}
    \cup {[st |-> "row", value |-> n] : n \in Names}

\* lines 226-235: the name after the optional metadata lookup
ResolveName(name, asset_type, lookup) ==
    IF ~Truthy(name) /\ asset_type = "stock"
    THEN (IF lookup.st = "row" THEN lookup.value ELSE name)
    ELSE name

\* the name test as it would be without the strip()
NameOkNoStrip(name) == Truthy(name)

\* line 238 negated: the name allows the sync to proceed
NameOk(name) == Truthy(name) /\ Truthy(Strip(name))

\* the order of the adapters of get_stock_data as it would be with the
\* first adapter tried again after the second
AfterFailureRetry(src) ==
    CASE src = "EastMoney" -> "Tencent"
      [] src = "Tencent"   -> "EastMoney"
      [] src = "Sina"      -> "failed"

\* get_stock_data: where control goes when an adapter's try block raises
AfterFailure(src) ==
    CASE src = "EastMoney" -> "Tencent"
      [] src = "Tencent"   -> "Sina"
      [] src = "Sina"      -> "failed"

\* lines 254-261: the branch on asset_type
FetchPc(asset_type) ==
    CASE asset_type = "stock" -> "EastMoney"
      [] asset_type = "fund"  -> "Fund"
      [] OTHER                -> "returned"

IdleSync ==
    [pc |-> "idle", via |-> "", symbol |-> "", asset_type |-> "", name_arg |-> None,
     lookup |-> [st |-> "no_row", value |-> None], name |-> None, asset_id |-> 0,
     df |-> EmptyFrame, attempts |-> <<>>, error |-> "", commit |-> "",
     pre |-> [assets |-> <<>>, prices |-> {}]]

NoResp == [op |-> "none"]

Init ==
    /\ assets = <<>>
    /\ prices = {}
    /\ txs = <<>>
    /\ sync = IdleSync
    /\ resp = NoResp
    /\ nsync = 0
    /\ peer = IdleSync

\* sync_asset_data(symbol, asset_type, name) is entered: lines 222-241.
\* The endpoint sync_asset passes no name; a direct call may.
SyncCall(via, symbol, asset_type, name_arg, lookup) ==
    /\ sync.pc = "idle"
    /\ nsync < MaxSyncs
    /\ via = "endpoint" => name_arg = None
    /\ LET name == ResolveName(name_arg, asset_type, lookup)
       IN  sync' = [IdleSync EXCEPT
                      !.pc = IF NameOk(name) THEN "query_asset" ELSE "failed",
                      !.error = IF NameOk(name) THEN "" ELSE "name",
                      !.via = via, !.symbol = symbol, !.asset_type = asset_type,
                      !.name_arg = name_arg,
                      !.lookup = IF ~Truthy(name_arg) /\ asset_type = "stock"
                                 THEN lookup ELSE IdleSync.lookup,
                      !.name = name,
                      !.pre = [assets |-> assets, prices |-> prices]]
    /\ nsync' = nsync + 1
    /\ resp' = NoResp
    /\ UNCHANGED <<assets, prices, txs, peer>>

\* line 244: asset = db.query(Asset).filter(Asset.symbol == symbol).first()
QueryAsset ==
    /\ sync.pc = "query_asset"
    /\ LET id == AssetIdBySymbol(assets, sync.symbol)
       IN  sync' = [sync EXCEPT
                      !.asset_id = id,
                      !.pc = IF id = 0 THEN "create_asset"
                             ELSE IF ~Truthy(assets[id].name) THEN "backfill"
                             ELSE FetchPc(sync.asset_type)]
    /\ UNCHANGED <<assets, prices, txs, resp, nsync, peer>>

\* lines 246-249: db.add(asset); db.commit(); db.refresh(asset)
CreateAsset ==
    /\ sync.pc = "create_asset"
    /\ IF SymbolTaken(assets, sync.symbol)
       THEN /\ sync' = [sync EXCEPT !.pc = "failed", !.error = "integrity"]
            /\ UNCHANGED assets
       ELSE /\ assets' = Append(assets, Asset(sync.symbol, sync.name, sync.asset_type))
            /\ sync' = [sync EXCEPT !.asset_id = Len(assets) + 1,
                                    !.pc = FetchPc(sync.asset_type)]
    /\ UNCHANGED <<prices, txs, resp, nsync, peer>>

\* lines 250-252: asset.name = name; db.commit()
BackfillName ==
    /\ sync.pc = "backfill"
    /\ assets' = [assets EXCEPT ![sync.asset_id].name = sync.name]
    /\ sync' = [sync EXCEPT !.pc = FetchPc(sync.asset_type)]
    /\ UNCHANGED <<prices, txs, resp, nsync, peer>>

\* one adapter of get_stock_data has run with result r
Attempted(src, r) ==
    sync' = [sync EXCEPT
               !.attempts = Append(@, [src |-> src, ok |-> r.ok]),
               !.df = r.df,
               !.pc = IF r.ok THEN "insert" ELSE AfterFailure(src),
               !.error = IF ~r.ok /\ AfterFailure(src) = "failed"
                         THEN "sources" ELSE ""]

\* lines 52-95
TryEastMoney(snap, sraw, sqfq, shfq) ==
    /\ sync.pc = "EastMoney"
    /\ Attempted("EastMoney", EastMoney(Response(snap, sraw), Response(snap, sqfq),
                                        Response(snap, shfq)))
    /\ UNCHANGED <<assets, prices, txs, resp, nsync, peer>>

\* lines 98-143
TryTencent(snap, sqfq, shfq) ==
    /\ sync.pc = "Tencent"
    /\ Attempted("Tencent", Tencent(Response(snap, sqfq), Response(snap, shfq)))
    /\ UNCHANGED <<assets, prices, txs, resp, nsync, peer>>

\* lines 146-174
TrySina(snap, s) ==
    /\ sync.pc = "Sina"
    /\ Attempted("Sina", Sina(Response(snap, s)))
    /\ UNCHANGED <<assets, prices, txs, resp, nsync, peer>>

\* line 257: df = get_fund_data(symbol, start_date); its exceptions propagate
FetchFund(snap, sqfq, shfq, sraw) ==
    /\ sync.pc = "Fund"
    /\ LET r == get_fund_data(Response(snap, sqfq), Response(snap, shfq),
                              Response(snap, sraw))
       IN  sync' = [sync EXCEPT !.df = r.df,
                                !.pc = IF r.ok THEN "insert" ELSE "failed",
                                !.error = IF r.ok THEN "" ELSE "fund"]
    /\ UNCHANGED <<assets, prices, txs, resp, nsync, peer>>

\* lines 263-293: the insert loop, then commit; an error of the commit is
\* caught, rolled back and printed.  fault: the store refuses the write.
InsertAndCommit(fault) ==
    /\ sync.pc = "insert"
    /\ LET c == CommitPrices(prices, PendingInserts(sync.asset_id, sync.df), fault)
       IN  /\ prices' = c.prices
           /\ sync' = [sync EXCEPT !.pc = "returned",
                                   !.commit = IF c.ok THEN "ok"
                                              ELSE IF fault THEN "fault" ELSE "integrity"]
    /\ UNCHANGED <<assets, txs, resp, nsync, peer>>

\* sync_asset (main.py 199-237) after sync_asset_data: an exception of the
\* call propagates; otherwise the asset is read back and success reported.
\* A direct caller of sync_asset_data sees the return or the exception.
SyncResponse(s, as) ==
    IF s.pc = "failed" THEN "error"
    ELSE IF s.via = "endpoint" /\ AssetIdBySymbol(as, s.symbol) = 0 THEN "not_found"
    ELSE IF s.via = "endpoint" THEN "success"
    ELSE "returned"

SyncReturn ==
    /\ sync.pc \in {"returned", "failed"}
    /\ resp' = [op |-> "sync", status |-> SyncResponse(sync, assets), call |-> sync]
    /\ sync' = IdleSync
    /\ UNCHANGED <<assets, prices, txs, nsync, peer>>

SyncStep ==
    \/ QueryAsset
    \/ CreateAsset
    \/ BackfillName
    \/ \E snap \in Snapshots, ss \in CallShapes(3) : TryEastMoney(snap, ss[1], ss[2], ss[3])
    \/ \E snap \in Snapshots, ss \in CallShapes(2) : TryTencent(snap, ss[1], ss[2])
    \/ \E snap \in Snapshots, ss \in CallShapes(1) : TrySina(snap, ss[1])
    \/ \E snap \in Snapshots, ss \in CallShapes(3) : FetchFund(snap, ss[1], ss[2], ss[3])
    \/ \E fault \in BOOLEAN : InsertAndCommit(fault)
    \/ SyncReturn

(***************************************************************************)
(* The transaction handlers of main.py.                                     *)
(***************************************************************************)
\* a float as SQLite stores and compares it: NaN is stored as NULL
Null == [k |-> "null", v |-> 0]
SqlFloat(x) == IF x.k = "nan" THEN Null ELSE x
\* column == value in a filter: never true of a NULL
SqlEq(stored, x) == stored.k # "null" /\ SqlFloat(x).k # "null" /\ stored = SqlFloat(x)

\* the columns of class Transaction (models.py); the declarative constructor
\* raises TypeError on a keyword that is no attribute of the class
TransactionAttrs == {"id", "asset_id", "date", "type", "quantity", "price", "fees",
                     "asset"}
CtorAccepts(kwargs) == kwargs \subseteq TransactionAttrs

Transaction(id, asset_id, d, type, quantity, price, fees) ==
    [id |-> id, asset_id |-> asset_id, date |-> d, type |-> type,
     quantity |-> quantity, price |-> price, fees |-> SqlFloat(fees)]

RECURSIVE MaxId(_)
MaxId(ts) == IF ts = <<>> THEN 0
             ELSE LET m == MaxId(Tail(ts)) IN IF Head(ts).id > m THEN Head(ts).id ELSE m

\* id = Column(Integer, primary_key=True): the next rowid
NextTxId(ts) == MaxId(ts) + 1

\* the catalog as it would be left without the "if not asset" block
EnsureAssetNoCreate(as, symbol, name) == as

\* "asset = query.first(); if not asset: add, commit, refresh": the catalog
\* afterwards (the asset's id is then AssetIdBySymbol)
EnsureAsset(as, symbol, name) ==
    IF AssetIdBySymbol(as, symbol) # 0 THEN as
    ELSE Append(as, Asset(symbol, name, "stock"))

TxIndexById(ts, id) ==
    IF \E i \in 1..Len(ts) : ts[i].id = id
    THEN CHOOSE i \in 1..Len(ts) : ts[i].id = id
    ELSE 0

\* create_transaction (main.py 77-114).  The asset is committed first; the
\* row is then built with the keywords asset_id, date, type, quantity, price,
\* fees and notes.
CreateTransaction(symbol, d, type, quantity, price, fees, maxlen) ==
    /\ sync.pc = "idle"
    /\ Len(txs) < maxlen
    /\ assets' = EnsureAsset(assets, symbol, "")
    /\ IF CtorAccepts({"asset_id", "date", "type", "quantity", "price", "fees", "notes"})
       THEN /\ txs' = Append(txs, Transaction(NextTxId(txs),
                                AssetIdBySymbol(assets', symbol), d, type,
                                quantity, price, fees))
            /\ resp' = [op |-> "create", status |-> "ok", id |-> NextTxId(txs)]
       ELSE /\ txs' = txs
            /\ resp' = [op |-> "create", status |-> "error", id |-> 0]
    /\ UNCHANGED <<prices, sync, nsync, peer>>

\* the fields of a TransactionUpdate that are not None are the domain of patch
Has(patch, f) == f \in DOMAIN patch

\* update_transaction (main.py 116-160): lines 124-145 applied to a row
ApplyPatch(t, patch, as) ==
    [t EXCEPT
       !.asset_id = IF Has(patch, "symbol") /\ patch.symbol # ""
                    THEN AssetIdBySymbol(as, patch.symbol) ELSE @,
       !.date     = IF Has(patch, "date") THEN patch.date ELSE @,
       !.type     = IF Has(patch, "type") /\ patch.type # "" THEN patch.type ELSE @,
       !.quantity = IF Has(patch, "quantity") THEN patch.quantity ELSE @,
       !.price    = IF Has(patch, "price") THEN patch.price ELSE @,
       !.fees     = IF Has(patch, "fees") THEN SqlFloat(patch.fees) ELSE @]

\* notes is no column: "existing_tx.notes = ..." sets a plain attribute, and
\* the response reads existing_tx.notes, which exists only if it was set
UpdateTransaction(tx_id, patch) ==
    /\ sync.pc = "idle"
    /\ LET i == TxIndexById(txs, tx_id)
       IN  IF i = 0
           THEN /\ resp' = [op |-> "update", status |-> "not_found", id |-> tx_id]
                /\ UNCHANGED <<assets, txs>>
           ELSE /\ assets' = IF Has(patch, "symbol") /\ patch.symbol # ""
                              THEN EnsureAsset(assets, patch.symbol, "") ELSE assets
                /\ txs' = [txs EXCEPT ![i] = ApplyPatch(@, patch, assets')]
                /\ resp' = [op |-> "update",
                            status |-> IF Has(patch, "notes") THEN "ok" ELSE "error",
                            id |-> tx_id]
    /\ UNCHANGED <<prices, sync, nsync, peer>>

\* delete_transaction (main.py 162-172)
DeleteTransaction(tx_id) ==
    /\ sync.pc = "idle"
    /\ LET i == TxIndexById(txs, tx_id)
       IN  IF i = 0
           THEN /\ resp' = [op |-> "delete", status |-> "not_found", id |-> tx_id]
                /\ txs' = txs
           ELSE /\ txs' = [j \in 1..(Len(txs) - 1) |->
                              IF j < i THEN txs[j] ELSE txs[j + 1]]
                /\ resp' = [op |-> "delete", status |-> "ok", id |-> tx_id]
    /\ UNCHANGED <<assets, prices, sync, nsync, peer>>

(***************************************************************************)
(* import_transactions (main.py 239-391), from the normalised table on: a   *)
(* file is the sequence of its rows after the renaming of lines 275-319.    *)
(* A row has symbol, date, type, quantity, price, and optionally fees and   *)
(* asset_name.  The session does not autoflush (models.py 58): a query sees *)
(* the committed rows only, and rows added since the last commit are        *)
(* pending.                                                                 *)
(***************************************************************************)
\* tx_fees = float(row.get('fees', 0.0))
RowFees(row) == IF Has(row, "fees") THEN row.fees ELSE Num(0)
\* asset_name = str(row.get('asset_name', '')) if 'asset_name' in row else ''
RowAssetName(row) == IF Has(row, "asset_name") THEN row.asset_name ELSE ""

\* lines 347-354: is there a stored row equal on the six fields?
ExistingMatch(stored, asset_id, row) ==
    \E i \in 1..Len(stored) :
        /\ stored[i].asset_id = asset_id
        /\ stored[i].date = row.date
        /\ stored[i].type = row.type
        /\ stored[i].quantity = row.quantity
        /\ stored[i].price = row.price
        /\ SqlEq(stored[i].fees, RowFees(row))

\* db.commit(): the pending rows are inserted, ids given in order
RECURSIVE Flush(_, _)
Flush(stored, pending) ==
    IF pending = <<>> THEN stored
    ELSE Flush(Append(stored, [Head(pending) EXCEPT !.id = NextTxId(stored)]),
               Tail(pending))

\* one iteration of the loop of lines 328-371 on the state
\* st = [assets, stored, pending, imported, skipped]
ImportRow(st, row) ==
    LET known    == AssetIdBySymbol(st.assets, row.symbol) # 0
        as       == EnsureAsset(st.assets, row.symbol, RowAssetName(row))
        stored   == IF known THEN st.stored ELSE Flush(st.stored, st.pending)
        pending  == IF known THEN st.pending ELSE <<>>
        asset_id == AssetIdBySymbol(as, row.symbol)
    IN  IF ExistingMatch(stored, asset_id, row)
        THEN [st EXCEPT !.assets = as, !.stored = stored, !.pending = pending,
                        !.skipped = @ + 1]
        ELSE [st EXCEPT !.assets = as, !.stored = stored,
                        !.pending = Append(pending,
                            Transaction(0, asset_id, row.date, row.type,
                                        row.quantity, row.price, RowFees(row))),
                        !.imported = @ + 1]

RECURSIVE ImportLoop(_, _)
ImportLoop(st, rows) ==
    IF rows = <<>> THEN st ELSE ImportLoop(ImportRow(st, Head(rows)), Tail(rows))

ImportTransactions(file, maxlen) ==
    /\ sync.pc = "idle"
    /\ LET st == ImportLoop([assets |-> assets, stored |-> txs, pending |-> <<>>,
                             imported |-> 0, skipped |-> 0], file)
       IN  /\ Len(st.stored) + Len(st.pending) <= maxlen
           /\ assets' = st.assets
           /\ txs' = Flush(st.stored, st.pending)
           /\ resp' = [op |-> "import", status |-> "success", file |-> file,
                       total_rows |-> Len(file), imported |-> st.imported,
                       skipped_duplicates |-> st.skipped]
    /\ UNCHANGED <<prices, sync, nsync, peer>>

(***************************************************************************)
(* The valuation engine (portfolio.py).  Stored quantities and closes are   *)
(* finite; amounts are computed on integers.                                *)
(***************************************************************************)
RECURSIVE SumFn(_, _)
SumFn(f, S) == IF S = {} THEN 0
               ELSE LET x == CHOOSE y \in S : TRUE IN f[x] + SumFn(f, S \ {x})

\* holdings[symbol] += q on a defaultdict(float)
Bump(h, symbol, q) ==
    [x \in DOMAIN h \cup {symbol} |->
        (IF x \in DOMAIN h THEN h[x] ELSE 0) + (IF x = symbol THEN q ELSE 0)]

\* portfolio.py 13-18: one transaction applied to the holdings
HoldingsApply(h, t, as) ==
    IF t.type = "buy" THEN Bump(h, as[t.asset_id].symbol, t.quantity)
    ELSE IF t.type = "sell" THEN Bump(h, as[t.asset_id].symbol, 0 - t.quantity)
    ELSE h

RECURSIVE HoldingsFold(_, _, _)
HoldingsFold(ts, as, h) ==
    IF ts = <<>> THEN h ELSE HoldingsFold(Tail(ts), as, HoldingsApply(h, Head(ts), as))

\* calculate_portfolio_holdings: the positions with a positive quantity
calculate_portfolio_holdings(ts, as) ==
    LET h == HoldingsFold(ts, as, <<>>)
    IN  [x \in {y \in DOMAIN h : h[y] > 0} |-> h[x]]

\* line 42: the row of the asset with the greatest date, if any
LatestClose(ps, asset_id) ==
    LET mine == {r \in ps : r.asset_id = asset_id}
    IN  IF mine = {} THEN 0
        ELSE (CHOOSE r \in mine : \A q \in mine : q.date <= r.date).close.v

\* "if not asset.name or not asset.name.strip(): continue" negated
NameShown(name) == Truthy(name) /\ Truthy(Strip(name))

\* the loop body as it would be with the name test before the accumulation
AllocStepSkipFirst(acc, symbol, quantity, as, ps) ==
    LET a     == as[AssetIdBySymbol(as, symbol)]
        price == LatestClose(ps, AssetIdBySymbol(as, symbol))
        value == quantity * price
    IN  IF ~NameShown(a.name) THEN acc
        ELSE [total_value |-> acc.total_value + value,
              allocation  |-> acc.allocation \cup
                 {[symbol |-> symbol, name |-> a.name, quantity |-> quantity,
                   price |-> price, value |-> value]}]

\* lines 36-58: one iteration of the loop over the holdings
AllocStep(acc, symbol, quantity, as, ps) ==
    LET a     == as[AssetIdBySymbol(as, symbol)]
        price == LatestClose(ps, AssetIdBySymbol(as, symbol))
        value == quantity * price
    IN  [total_value |-> acc.total_value + value,
         allocation  |-> IF ~NameShown(a.name) THEN acc.allocation
                         ELSE acc.allocation \cup
                            {[symbol |-> symbol, name |-> a.name, quantity |-> quantity,
                              price |-> price, value |-> value]}]

RECURSIVE AllocLoop(_, _, _, _, _)
AllocLoop(acc, todo, holdings, as, ps) ==
    IF todo = {} THEN acc
    ELSE LET x == CHOOSE y \in todo : TRUE
         IN  AllocLoop(AllocStep(acc, x, holdings[x], as, ps), todo \ {x},
                       holdings, as, ps)

\* item["percentage"] = value / total_value * 100 if total_value > 0 else 0,
\* kept as the fraction num / den
Percentage(value, total_value) ==
    IF total_value > 0 THEN [num |-> value * 100, den |-> total_value]
    ELSE [num |-> 0, den |-> 1]

\* get_portfolio_allocation
get_portfolio_allocation(ts, as, ps) ==
    LET holdings == calculate_portfolio_holdings(ts, as)
    IN  IF DOMAIN holdings = {} THEN [items |-> {}, total_value |-> 0]
        ELSE LET acc == AllocLoop([total_value |-> 0, allocation |-> {}],
                                  DOMAIN holdings, holdings, as, ps)
             IN  [items |-> {[symbol |-> it.symbol, name |-> it.name,
                              quantity |-> it.quantity, price |-> it.price,
                              value |-> it.value,
                              percentage |-> Percentage(it.value, acc.total_value)] :
                                it \in acc.allocation},
                  total_value |-> acc.total_value]

\* the orders db.query(Transaction).order_by(Transaction.date) may return:
\* ascending dates, rows of one date in any order
DateOrders(ts) ==
    {p \in Permutations(1..Len(ts)) :
        \A i, j \in 1..Len(ts) : i < j => ts[p[i]].date <= ts[p[j]].date}

\* the date axis as it would be if the first transaction's own date were left out
PriceDatesFromStrict(ps, start_date) == {r.date : r \in {q \in ps : q.date > start_date}}

\* line 83: the distinct dates of the price table from start_date on
PriceDatesFrom(ps, start_date) == {r.date : r \in {q \in ps : q.date >= start_date}}

\* the loop condition as it would be with a strict comparison
TxDueStrict(t, d) == t.date < d

\* line 92: txs[tx_idx].date <= d
TxDue(t, d) == t.date <= d

\* lines 95-98: a buy adds, anything else subtracts
CurveApply(h, t, as) ==
    IF t.type = "buy" THEN Bump(h, as[t.asset_id].symbol, t.quantity)
    ELSE Bump(h, as[t.asset_id].symbol, 0 - t.quantity)

\* lines 92-99: the while loop; yields [h, idx]
RECURSIVE Advance(_, _, _, _, _)
Advance(h, idx, ordered, d, as) ==
    IF idx <= Len(ordered) /\ TxDue(ordered[idx], d)
    THEN Advance(CurveApply(h, ordered[idx], as), idx + 1, ordered, d, as)
    ELSE [h |-> h, idx |-> idx]

NoPrice == [found |-> FALSE, close |-> 0]

\* the price lookup as it would be without the carry-forward query
PriceOnExact(ps, asset_id, d) ==
    LET exact == {r \in ps : r.asset_id = asset_id /\ r.date = d}
    IN  IF exact # {} THEN [found |-> TRUE, close |-> (CHOOSE r \in exact : TRUE).close.v]
        ELSE NoPrice

\* lines 106-113: the row of date d, else the latest row before d
PriceOn(ps, asset_id, d) ==
    LET exact  == {r \in ps : r.asset_id = asset_id /\ r.date = d}
        before == {r \in ps : r.asset_id = asset_id /\ r.date < d}
    IN  IF exact # {} THEN [found |-> TRUE, close |-> (CHOOSE r \in exact : TRUE).close.v]
        ELSE IF before # {}
        THEN [found |-> TRUE,
              close |-> (CHOOSE r \in before : \A q \in before : q.date <= r.date).close.v]
        ELSE NoPrice

\* lines 102-115: the point of date d; holdings and used record the running
\* quantities and the price taken for each symbol valued
CurvePoint(h, d, as, ps) ==
    LET valued == {x \in DOMAIN h : h[x] # 0}
        used   == [x \in valued |-> PriceOn(ps, AssetIdBySymbol(as, x), d)]
    IN  [time |-> d,
         value |-> SumFn([x \in valued |-> h[x] * used[x].close], valued),
         holdings |-> h, used |-> used]

RECURSIVE CurveLoop(_, _, _, _, _, _)
CurveLoop(dates, h, idx, ordered, as, ps) ==
    IF dates = {} THEN <<>>
    ELSE LET d == CHOOSE x \in dates : \A y \in dates : x <= y
             a == Advance(h, idx, ordered, d, as)
         IN  <<CurvePoint(a.h, d, as, ps)>>
             \o CurveLoop(dates \ {d}, a.h, a.idx, ordered, as, ps)

\* calculate_equity_curve on the rows in the order the query returned them
calculate_equity_curve(ordered, as, ps) ==
    IF ordered = <<>> THEN <<>>
    ELSE CurveLoop(PriceDatesFrom(ps, ordered[1].date), <<>>, 1, ordered, as, ps)

\* GET /portfolio/summary
GetPortfolioSummary ==
    /\ sync.pc = "idle"
    /\ resp' = [op |-> "summary", result |-> get_portfolio_allocation(txs, assets, prices)]
    /\ UNCHANGED <<assets, prices, txs, sync, nsync, peer>>

\* GET /portfolio/equity-curve
GetEquityCurve ==
    /\ sync.pc = "idle"
    /\ \E p \in DateOrders(txs) :
          resp' = [op |-> "equity_curve",
                   result |-> calculate_equity_curve([i \in 1..Len(txs) |-> txs[p[i]]],
                                                     assets, prices)]
    /\ UNCHANGED <<assets, prices, txs, sync, nsync, peer>>

(***************************************************************************)
(* Spec: the sync pipeline from the empty store.  Instruments also enter    *)
(* the catalog without a usable name: through create_transaction (empty     *)
(* name) and through the import of a broker file whose name cell is blank.  *)
(***************************************************************************)
SyncRequest ==
    \E symbol \in Symbols, t \in AssetTypes, n \in {None, "Acme"}, lookup \in Lookups :
        SyncCall(IF n = None THEN "endpoint" ELSE "direct", symbol, t, n, lookup)

BlankNameFile ==
    <<[symbol |-> "B", date |-> 1, type |-> "buy", quantity |-> 1, price |-> 10,
       fees |-> Num(0), asset_name |-> " "]>>

Next ==
    \/ SyncRequest
    \/ SyncStep
    \/ CreateTransaction("A", 1, "buy", 1, 10, Num(0), MaxTx)
    \/ ImportTransactions(BlankNameFile, MaxTx)

Spec == Init /\ [][Next]_vars

(***************************************************************************)
(* Properties of the sync pipeline (checked under Spec).                    *)
(***************************************************************************)
SyncDone == resp.op = "sync"

\* the rows stored for (asset_id, d)
StoredAt(asset_id, d) == {r \in prices : r.asset_id = asset_id /\ r.date = d}

\* C1: after a sync whose fetch returned the validated rows R (and whose
\* commit met no fault of the store itself), the price table holds for every
\* date of R exactly one row of the instrument, equal to R's row, whether or
\* not a row of that key was stored before.
C1_SyncUpserts ==
    (SyncDone /\ resp.call.commit \in {"ok", "integrity"}) =>
        \A d \in DOMAIN resp.call.df.rows :
            StoredAt(resp.call.asset_id, d) =
                {PriceHistory(resp.call.asset_id, d, resp.call.df.rows[d])}

\* C2: every stored price field is a finite number > 0 and every stored
\* volume a finite number >= 0, in every state any sequence of syncs reaches.
C2_StoredPricesValid ==
    \A r \in prices :
        /\ \A c \in price_cols : IsNum(r[c]) /\ r[c].v > 0
        /\ IsNum(r["volume"]) /\ r["volume"].v >= 0

\* a sync stored its rows after validation had removed the row of date 1
\* (every usable response of the model has a row of date 1)
C2_Witness ==
    /\ SyncDone /\ resp.call.commit = "ok"
    /\ 1 \notin DOMAIN resp.call.df.rows
    /\ StoredAt(resp.call.asset_id, MaxDate) # {}

SourceOrder == <<"EastMoney", "Tencent", "Sina">>

FetchInOrder(s) ==
    LET n == Len(s.attempts)
    IN  /\ n <= Len(SourceOrder)
        /\ \A i \in 1..n : s.attempts[i].src = SourceOrder[i]
        /\ \A i \in 1..n : i < n => ~s.attempts[i].ok
        /\ (n > 0 /\ s.attempts[n].ok) =>
              /\ s.error = ""
              /\ ~IsEmpty(s.df)
              /\ s.pc \in {"insert", "returned"}
        /\ (s.asset_type = "stock" /\ s.pc \in {"insert", "returned"}) =>
              (n > 0 /\ s.attempts[n].ok)
        /\ s.error = "sources" <=>
              (n = Len(SourceOrder) /\ \A i \in 1..n : ~s.attempts[i].ok)
        /\ s.pc \in {"EastMoney", "Tencent", "Sina"} =>
              (n < Len(SourceOrder) /\ s.pc = SourceOrder[n + 1])

\* C3: a stock fetch tries East Money, Tencent, Sina in this order, each at
\* most once; it ends at the first adapter whose validated rows are not
\* empty, with those rows and without an error; it fails only after all
\* three have failed.
C3_SourceFallback == FetchInOrder(sync) /\ (SyncDone => FetchInOrder(resp.call))

\* the first adapter failed, the second delivered, and the sync succeeded
C3_Witness ==
    /\ SyncDone /\ resp.status = "success" /\ resp.call.commit = "ok"
    /\ resp.call.attempts = <<[src |-> "EastMoney", ok |-> FALSE],
                              [src |-> "Tencent", ok |-> TRUE]>>

\* C4: when every price source fails, the sync ends with an error, no
\* instrument row has been created for the symbol and no price row has been
\* added or changed.
C4_NoPartialState ==
    (SyncDone /\ resp.call.error \in {"sources", "fund"}) =>
        /\ resp.status = "error"
        /\ AssetIdBySymbol(resp.call.pre.assets, resp.call.symbol) = 0
              => AssetIdBySymbol(assets, resp.call.symbol) = 0
        /\ prices = resp.call.pre.prices

\* the call was for a stock, without a name, and the lookup gave none
NameUnresolved(s) ==
    /\ s.asset_type = "stock"
    /\ ~Truthy(s.name_arg)
    /\ \/ s.lookup.st \in {"raise", "no_row"}
       \/ s.lookup.value \in {"", " "}

\* C5: when the name of a stock cannot be resolved, the sync fails before
\* any price source is queried, and the catalog and the price table are as
\* they were before the call.
C5_NameFailureAborts ==
    /\ (sync.pc # "idle" /\ NameUnresolved(sync)) =>
          /\ sync.pc = "failed" /\ sync.error = "name"
          /\ sync.attempts = <<>>
          /\ assets = sync.pre.assets /\ prices = sync.pre.prices
    /\ (SyncDone /\ NameUnresolved(resp.call)) =>
          /\ resp.status = "error" /\ resp.call.error = "name"
          /\ resp.call.attempts = <<>>
          /\ assets = resp.call.pre.assets /\ prices = resp.call.pre.prices

\* a sync of a stock whose lookup returned a blank name has failed, with
\* instruments and prices in the store
C5_Witness ==
    /\ SyncDone /\ NameUnresolved(resp.call) /\ resp.call.lookup.value = " "
    /\ resp.status = "error"
    /\ assets # <<>> /\ prices # {}

\* C6: when the commit of the price batch fails, none of the batch's rows is
\* stored and the sync does not report success.
C6_CommitFailureSurfaced ==
    (SyncDone /\ resp.call.commit \in {"fault", "integrity"}) =>
        /\ prices = resp.call.pre.prices
        /\ resp.status = "error"

(***************************************************************************)
(* SpecValuation: the two valuation functions applied to stores drawn from  *)
(* bounded sets of the stores the handlers can produce: a catalog with a    *)
(* named instrument A and an instrument B whose name is usable, empty (as   *)
(* create_transaction and a plain import leave it) or blank (broker file);  *)
(* validated price rows, none for an instrument whose name is empty (a sync *)
(* fills an empty name before it stores prices); imported buys and sells.   *)
(***************************************************************************)
ValuationCatalogs ==
    {<<Asset("A", "Acme", "stock"), Asset("B", n, "stock")>> : n \in Names}

\* a validated row whose prices all equal c
FlatRow(c) == [col \in AllCols |-> IF col = "volume" THEN Num(c * 200) ELSE Num(c)]

\* the close of instrument asset_id on date d in the drawn stores
ValuationClose(asset_id, d) == 10 * d + asset_id

PriceRows(asset_id, ds) ==
    {PriceHistory(asset_id, d, FlatRow(ValuationClose(asset_id, d))) : d \in ds}

TxKinds ==
    {[asset_id |-> a, date |-> d, type |-> t, quantity |-> q] :
        a \in {1, 2}, d \in Dates, t \in {"buy", "sell"}, q \in {1, 2}}

InitValuation ==
    /\ assets \in ValuationCatalogs
    /\ \E da \in SUBSET Dates, db \in {{}, {1}} :
          /\ (assets[2].name = "") => db = {}
          /\ prices = PriceRows(1, da) \cup PriceRows(2, db)
    /\ \E n \in 0..MaxTx : \E ks \in [1..n -> TxKinds] :
          txs = [i \in 1..n |->
                   Transaction(i, ks[i].asset_id, ks[i].date, ks[i].type,
                               ks[i].quantity, 10, Num(0))]
    /\ sync = IdleSync
    /\ resp = NoResp
    /\ nsync = 0
    /\ peer = IdleSync

NextValuation == GetPortfolioSummary \/ GetEquityCurve

SpecValuation == InitValuation /\ [][NextValuation]_vars

(***************************************************************************)
(* Properties of the valuation engine (checked under SpecValuation).        *)
(***************************************************************************)
SymbolOf(t) == assets[t.asset_id].symbol
CatalogSymbols == {assets[i].symbol : i \in 1..Len(assets)}

\* buys minus sells of a symbol over the transactions dated d or earlier
Signed(t) == IF t.type = "buy" THEN t.quantity
             ELSE IF t.type = "sell" THEN 0 - t.quantity ELSE 0
NetQtyUpTo(symbol, d) ==
    LET due == {i \in 1..Len(txs) : SymbolOf(txs[i]) = symbol /\ txs[i].date <= d}
    IN  SumFn([i \in due |-> Signed(txs[i])], due)
NetQty(symbol) == NetQtyUpTo(symbol, MaxDate + 1)

\* the rows of a symbol dated d or earlier, and the close of the latest
RowsUpTo(symbol, d) ==
    {r \in prices : r.asset_id = AssetIdBySymbol(assets, symbol) /\ r.date <= d}
CloseUpTo(symbol, d) ==
    (CHOOSE r \in RowsUpTo(symbol, d) : \A q \in RowsUpTo(symbol, d) : q.date <= r.date).close.v

\* quantity * latest close of a positively held symbol, 0 without prices
HeldValue(symbol) ==
    IF RowsUpTo(symbol, MaxDate) = {} THEN 0
    ELSE NetQty(symbol) * CloseUpTo(symbol, MaxDate)

SumValues(items) == SumFn([it \in items |-> it.value], items)
SumPercentNum(items) == SumFn([it \in items |-> it.percentage.num], items)

\* the positively held symbols that the item list leaves out
LeftOut == {x \in CatalogSymbols :
              NetQty(x) > 0 /\ ~NameShown(assets[AssetIdBySymbol(assets, x)].name)}

\* C7 as claimed: total_value is the sum of the items' values, and the
\* items' percentages sum to 100 when total_value > 0.
C7_TotalIsSumOfItems ==
    resp.op = "summary" =>
        /\ resp.result.total_value = SumValues(resp.result.items)
        /\ resp.result.total_value > 0 =>
              SumPercentNum(resp.result.items) = 100 * resp.result.total_value

\* C7 amended: total_value is the sum of the items' values plus the values
\* of the positively held instruments left out of the items for an empty or
\* blank name; the percentages sum to 100 when total_value > 0 and the
\* left-out instruments are worth nothing.
C7_TotalCountsLeftOut ==
    resp.op = "summary" =>
        /\ resp.result.total_value =
              SumValues(resp.result.items) + SumFn([x \in LeftOut |-> HeldValue(x)], LeftOut)
        /\ {it.symbol : it \in resp.result.items} =
              {x \in CatalogSymbols : NetQty(x) > 0} \ LeftOut
        /\ \A it \in resp.result.items : it.value = HeldValue(it.symbol)
        /\ (resp.result.total_value > 0 /\ \A x \in LeftOut : HeldValue(x) = 0) =>
              SumPercentNum(resp.result.items) = 100 * resp.result.total_value

\* a summary with an item, and a priced holding left out for its blank name
C7_Witness ==
    /\ resp.op = "summary"
    /\ resp.result.items # {}
    /\ \E x \in LeftOut : HeldValue(x) > 0

Points == resp.result
Valued(pt) == {x \in DOMAIN pt.holdings : pt.holdings[x] # 0}

QtyAt(pt, symbol) == IF symbol \in DOMAIN pt.holdings THEN pt.holdings[symbol] ELSE 0

\* C9: for a log of buys and sells, the running quantity of every symbol at
\* every axis date d is the sum of the buys minus the sum of the sells dated
\* d or earlier, whatever the order of the rows of one date; it may be
\* negative.
C9_RunningQuantity ==
    (resp.op = "equity_curve" /\ \A i \in 1..Len(txs) : txs[i].type \in {"buy", "sell"}) =>
        \A i \in 1..Len(Points) : \A x \in CatalogSymbols :
            QtyAt(Points[i], x) = NetQtyUpTo(x, Points[i].time)

\* two transactions of one date and one symbol, a later one not yet due,
\* and a negative running quantity
C9_Witness ==
    /\ resp.op = "equity_curve"
    /\ \E i \in 1..Len(Points) : \E x \in CatalogSymbols :
          /\ QtyAt(Points[i], x) < 0
          /\ \E j, k \in 1..Len(txs) :
                /\ j # k /\ txs[j].date = txs[k].date
                /\ SymbolOf(txs[j]) = x /\ SymbolOf(txs[k]) = x
                /\ txs[j].type # txs[k].type

(***************************************************************************)
(* SpecLog: the transaction log under manual entry, update, delete and      *)
(* import, from the empty store.                                            *)
(***************************************************************************)
\* rows of normalised files: a plain row, the same row with an empty fees
\* cell (read as NaN), a broker row with a blank name, a row without fees
ImportRows ==
    { [symbol |-> "A", date |-> 1, type |-> "buy", quantity |-> 1, price |-> 10,
       fees |-> Num(0)],
      [symbol |-> "A", date |-> 1, type |-> "buy", quantity |-> 1, price |-> 10,
       fees |-> NaN],
      [symbol |-> "B", date |-> 1, type |-> "sell", quantity |-> 2, price |-> 10,
       fees |-> Num(1), asset_name |-> " "],
      [symbol |-> "B", date |-> MaxDate, type |-> "buy", quantity |-> 1, price |-> 10] }

Files == UNION {[1..n -> ImportRows] : n \in 1..MaxFileRows}

Patches ==
    { [type |-> "sell", notes |-> "n"],
      [symbol |-> "B", date |-> MaxDate],
      [quantity |-> 0, price |-> 0 - 1, fees |-> NaN, notes |-> ""],
      [symbol |-> "", type |-> ""],
      [type |-> "hold"] }

NextLog ==
    \/ \E f \in Files : ImportTransactions(f, MaxLog)
    \/ \E symbol \in Symbols, t \in {"buy", "hold"} :
          CreateTransaction(symbol, 1, t, 1, 10, Num(0), MaxLog)
    \/ \E id \in 1..(MaxLog + 1), patch \in Patches : UpdateTransaction(id, patch)
    \/ \E id \in 1..(MaxLog + 1) : DeleteTransaction(id)

SpecLog == Init /\ [][NextLog]_vars

\* C10: importing the same file again, with nothing in between, creates no
\* transaction: the log after the second import is the log after the first.
C10_ReimportAddsNothing ==
    [][(resp.op = "import" /\ resp'.op = "import" /\ resp'.file = resp.file)
         => (txs' = txs /\ resp'.imported = 0)]_vars

(***************************************************************************)
(* Where the valuation functions can raise.  The operators above are total; *)
(* the Python they model is not: a relationship or a query may yield None   *)
(* and a Float column may hold NULL.                                        *)
(***************************************************************************)
\* tx.asset is None for a row whose asset_id matches no instrument
DanglingAsset(t, as) == t.asset_id \notin 1..Len(as)

\* the instrument has transactions and a price row whose close is NULL:
\* quantity * None is a TypeError
NullCloseOfTraded(ts, ps) ==
    \E r \in ps : r.close.k = "null" /\ \E i \in 1..Len(ts) : ts[i].asset_id = r.asset_id

\* get_portfolio_allocation raises: asset.symbol on None (portfolio.py 14-18,
\* reached for a buy or a sell), or quantity * None (44-45)
AllocationRaises(ts, as, ps) ==
    \/ \E i \in 1..Len(ts) : ts[i].type \in {"buy", "sell"} /\ DanglingAsset(ts[i], as)
    \/ NullCloseOfTraded(ts, ps)

\* calculate_equity_curve raises: t.asset.symbol on None for a transaction
\* the while loop reaches (92-94), or qty * None (108, 113)
CurveRaises(ts, as, ps) ==
    \/ \E i \in 1..Len(ts) :
          /\ DanglingAsset(ts[i], as)
          /\ \E r \in ps : r.date >= ts[i].date
    \/ NullCloseOfTraded(ts, ps)

(***************************************************************************)
(* SpecAnalytics: the valuation requests among manual entry, update,        *)
(* delete, import and sync, from the empty store.                           *)
(***************************************************************************)
\* files of one row
OneRowFiles == {<<r>> : r \in ImportRows}

\* under SpecAnalytics East Money answers every call, with all dates or the
\* first only, so that the later adapters are not reached
AnalyticsShapes == {"all", "first"}

AnalyticsCalls(n) == {ss \in CallShapes(n) : \A i \in 1..n : ss[i] \in AnalyticsShapes}

AnalyticsSnapshot == [level |-> 10, bad |-> "zero_close"]

AnalyticsSync ==
    \/ \E symbol \in Symbols :
          SyncCall("endpoint", symbol, "stock", None, [st |-> "row", value |-> "Acme"])
    \/ QueryAsset
    \/ CreateAsset
    \/ BackfillName
    \/ \E ss \in AnalyticsCalls(3) : TryEastMoney(AnalyticsSnapshot, ss[1], ss[2], ss[3])
    \/ InsertAndCommit(FALSE)
    \/ SyncReturn

NextAnalytics ==
    \/ \E f \in OneRowFiles : ImportTransactions(f, MaxLog)
    \/ CreateTransaction("A", 1, "buy", 1, 10, Num(0), MaxLog)
    \/ \E id \in 1..MaxLog, patch \in Patches : UpdateTransaction(id, patch)
    \/ \E id \in 1..MaxLog : DeleteTransaction(id)
    \/ AnalyticsSync
    \/ GetPortfolioSummary
    \/ GetEquityCurve

SpecAnalytics == Init /\ [][NextAnalytics]_vars

\* C11: in every state that manual entry, update, delete, import and sync
\* reach, the empty store and stores with an unpriced holding included,
\* get_portfolio_allocation and calculate_equity_curve raise no error; an
\* instrument without a price row counts for nothing in the result.
C11_AnalyticsNeverRaise ==
    /\ ~AllocationRaises(txs, assets, prices)
    /\ ~CurveRaises(txs, assets, prices)
    /\ resp.op = "summary" =>
          \A it \in resp.result.items :
              (\A r \in prices : r.asset_id # AssetIdBySymbol(assets, it.symbol))
                  => it.value = 0
    /\ resp.op = "equity_curve" =>
          \A i \in 1..Len(resp.result) : \A x \in DOMAIN resp.result[i].used :
              ~resp.result[i].used[x].found => resp.result[i].used[x].close = 0

\* an equity curve with a point at which a held instrument has no price
C11_Witness ==
    /\ resp.op = "equity_curve"
    /\ \E i \in 1..Len(resp.result) : \E x \in DOMAIN resp.result[i].used :
          ~resp.result[i].used[x].found

(***************************************************************************)
(* SpecRace: two requests POST /assets/sync/A served at the same time.      *)
(* sync_asset is a plain def, which the server runs on a worker thread per  *)
(* request; each call of sync_asset_data opens a session of its own.  One   *)
(* call is scheduled (sync) while the other waits (peer); Switch hands the  *)
(* processor to the other call between two store round trips.               *)
(***************************************************************************)
Switch ==
    /\ sync # peer
    /\ sync' = peer
    /\ peer' = sync
    /\ UNCHANGED <<assets, prices, txs, resp, nsync>>

RaceCall == SyncCall("endpoint", "A", "stock", None, [st |-> "row", value |-> "Acme"])

NextRace ==
    \/ RaceCall
    \/ Switch
    \/ QueryAsset
    \/ CreateAsset
    \/ \E snap \in Snapshots, ss \in CallShapes(3) : TryEastMoney(snap, ss[1], ss[2], ss[3])
    \/ \E snap \in Snapshots, ss \in CallShapes(2) : TryTencent(snap, ss[1], ss[2])
    \/ \E snap \in Snapshots, ss \in CallShapes(1) : TrySina(snap, ss[1])
    \/ InsertAndCommit(FALSE)
    \/ SyncReturn

SpecRace == Init /\ [][NextRace]_vars

\* both calls are between their entry and their return
BothInFlight == sync.pc # "idle" /\ peer.pc # "idle"

\* C12: while two syncs of one symbol overlap, neither meets an error of
\* the store: no insert of the instrument is refused and no price batch is
\* discarded (so the rows of the later writer are the ones stored), and the
\* catalog has at most one instrument of the symbol and the price table one
\* row per instrument and date.
C12_ConcurrentSyncsSucceed ==
    BothInFlight =>
        /\ \A s \in {sync, peer} : s.error # "integrity" /\ s.commit # "integrity"
        /\ Cardinality({i \in 1..Len(assets) : assets[i].symbol = "A"}) <= 1
        /\ \A r, q \in prices : (r.asset_id = q.asset_id /\ r.date = q.date) => r = q

(***************************************************************************)
(* Properties of the transaction log (checked under SpecLog).               *)
(***************************************************************************)
\* C13: every stored transaction has a side of buy or sell, a quantity > 0,
\* a unit price > 0 and fees that are a number >= 0.
C13_TransactionsWellFormed ==
    \A i \in 1..Len(txs) :
        /\ txs[i].type \in {"buy", "sell"}
        /\ txs[i].quantity > 0
        /\ txs[i].price > 0
        /\ IsNum(txs[i].fees) /\ txs[i].fees.v >= 0

\* C14: a manual create succeeds and appends one transaction, with a fresh
\* id, the submitted values (date 1, quantity 1, price 10, fees 0 are what
\* SpecLog submits) and an instrument of the catalog; the rows that were
\* stored are unchanged.
C14_CreateAppendsOne ==
    [][resp'.op = "create" =>
         /\ resp'.status = "ok"
         /\ Len(txs') = Len(txs) + 1
         /\ SubSeq(txs', 1, Len(txs)) = txs
         /\ LET t == txs'[Len(txs')]
            IN  /\ t.id = resp'.id
                /\ \A i \in 1..Len(txs) : txs[i].id # t.id
                /\ t.asset_id \in 1..Len(assets')
                /\ t.date = 1 /\ t.quantity = 1 /\ t.price = 10
                /\ t.fees = Num(0)]_vars

(***************************************************************************)
(* More properties of the valuation engine (checked under SpecValuation).   *)
(***************************************************************************)
\* the instruments allocation() lists when the holdings are taken as of
\* the date today: named, with a positive net quantity up to today
ShownAsOf(today) ==
    {x \in CatalogSymbols :
        /\ NetQtyUpTo(x, today) > 0
        /\ NameShown(assets[AssetIdBySymbol(assets, x)].name)}

\* C15: whatever date today is, the items of allocation() are the named
\* instruments held as of today, each with its net quantity up to today: a
\* transaction dated after today changes nothing.
C15_HoldingsAsOfToday ==
    resp.op = "summary" =>
        \A today \in Dates :
            /\ {it.symbol : it \in resp.result.items} = ShownAsOf(today)
            /\ \A it \in resp.result.items : it.quantity = NetQtyUpTo(it.symbol, today)

(***************************************************************************)
(* SpecFund: get_fund_data applied to the responses of its three calls      *)
(* (front-adjusted, back-adjusted, raw), drawn from the provider responses. *)
(***************************************************************************)
InitFund ==
    /\ assets = <<>>
    /\ prices = {}
    /\ txs = <<>>
    /\ sync = IdleSync
    /\ peer = IdleSync
    /\ nsync = 0
    /\ \E snap \in Snapshots, ss \in CallShapes(3) :
          resp = [op |-> "fund_call", qfq |-> Response(snap, ss[1]),
                  hfq |-> Response(snap, ss[2]), raw |-> Response(snap, ss[3])]

FundFetch ==
    /\ resp.op = "fund_call"
    /\ resp' = [op |-> "fund_fetch", qfq |-> resp.qfq, hfq |-> resp.hfq, raw |-> resp.raw,
                result |-> get_fund_data(resp.qfq, resp.hfq, resp.raw)]
    /\ UNCHANGED <<assets, prices, txs, sync, nsync, peer>>

SpecFund == InitFund /\ [][FundFetch]_vars

\* the provider's row passes the rule of validate_price_data by itself
ProvRowValid(row) ==
    /\ \A c \in {"open", "high", "low", "close"} : PriceOk(row[c])
    /\ VolumeOk(row.vol)

\* date d is in the response r and in neither of the responses o1, o2
OnlyIn(d, r, o1, o2) ==
    d \in DOMAIN r.rows /\ d \notin DOMAIN o1.rows /\ d \notin DOMAIN o2.rows

\* C16: when the three calls of a fund fetch return rows, a date with a
\* valid row in only one of the three series is in the returned frame, with
\* the columns of the other two series null (NaN).
C16_FundKeepsLoneDates ==
    (resp.op = "fund_fetch" /\ ~Unusable(resp.qfq) /\ ~Unusable(resp.hfq) /\ ~Unusable(resp.raw)) =>
        \A d \in Dates :
            /\ (OnlyIn(d, resp.raw, resp.qfq, resp.hfq) /\ ProvRowValid(resp.raw.rows[d])) =>
                  /\ resp.result.ok /\ d \in DOMAIN resp.result.df.rows
                  /\ \A c \in QfqCols \cup AdjCols \cup {"volume"} :
                        resp.result.df.rows[d][c] = NaN
            /\ (OnlyIn(d, resp.qfq, resp.raw, resp.hfq) /\ ProvRowValid(resp.qfq.rows[d])) =>
                  /\ resp.result.ok /\ d \in DOMAIN resp.result.df.rows
                  /\ \A c \in RawCols \cup AdjCols : resp.result.df.rows[d][c] = NaN
            /\ (OnlyIn(d, resp.hfq, resp.raw, resp.qfq) /\ ProvRowValid(resp.hfq.rows[d])) =>
                  /\ resp.result.ok /\ d \in DOMAIN resp.result.df.rows
                  /\ \A c \in RawCols \cup QfqCols \cup {"volume"} :
                        resp.result.df.rows[d][c] = NaN

(***************************************************************************)
(* The date axis of the equity curve, under SpecValuation.                  *)
(***************************************************************************)
EarliestTxDate == CHOOSE d \in {txs[i].date : i \in 1..Len(txs)} :
                      \A j \in 1..Len(txs) : d <= txs[j].date

PointTimes == {Points[i].time : i \in 1..Len(Points)}

PositiveHoldings(pt) ==
    [x \in {y \in DOMAIN pt.holdings : pt.holdings[y] > 0} |-> pt.holdings[x]]

\* C18: when the equity curve is computed over a log in which no
\* transaction is dated after the last axis date, the running quantities of
\* its last point, restricted to the strictly positive ones, equal the
\* holdings map of calculate_portfolio_holdings over the same log.
C18_ReconstructionsAgree ==
    [][(resp'.op = "equity_curve" /\ UNCHANGED <<assets, prices, txs>>
          /\ resp'.result # <<>>
          /\ \A i \in 1..Len(txs) : txs[i].date <= resp'.result[Len(resp'.result)].time)
        => PositiveHoldings(resp'.result[Len(resp'.result)])
              = calculate_portfolio_holdings(txs, assets)]_vars

====
